---------------------------- MODULE Spec2Model ----------------------------
(***************************************************************************)
(* Model of cliasi (src/src/cliasi/cliasi.py): the progress-bar layout     *)
(* function, the line printer, and the non-blocking animation tasks with   *)
(* their background thread.                                                *)
(*                                                                         *)
(* A Python str is a sequence of one-character cells.  Characters that     *)
(* are not printable ASCII are named: "ESC" is \x1b, "CR" is \r, "LF" is   *)
(* \n, "ELLIPSIS" is U+2026.                                               *)
(***************************************************************************)
EXTENDS Integers, Sequences, FiniteSets, TLC

VARIABLES
    \* ---- the Cliasi instance (cliasi.py 47-53) and its terminal ----
    cli,                        \* the fields of the instance
    terminal_size,              \* what _terminal_size() returns
    \* ---- a static progressbar() call (cliasi.py 354-370) ----
    call,                       \* the arguments and instance fields of the call
    ret,                        \* its outcome: not called, raised, or printed line
    \* ---- a non-blocking task (cliasi.py 386-572) ----
    handle,                     \* what the animate_* call gave the caller
    kind,                       \* "animation" | "progress" (which task class)
    closure_message,            \* parameter `message` captured by update_bar
    t_message,                  \* task._message
    t_progress,                 \* task._progress
    t_index,                    \* task._index
    t_one_line,                 \* task._message_stays_in_one_line
    condition,                  \* the threading.Event: is it set
    pc,                         \* position of the caller and of the thread
    arg,                        \* arguments of the update() each one is running
    tmp,                        \* value each one has evaluated and not yet stored
    term,                       \* what was written to the terminal
    hist                        \* history of the caller's completed calls

vars == <<cli, terminal_size, call, ret, handle, kind,
          closure_message, t_message, t_progress, t_index, t_one_line, condition,
          pc, arg, tmp, term, hist>>

instVars == <<cli, terminal_size>>
layoutVars == <<call, ret>>
taskVars == <<handle, kind, closure_message, t_message, t_progress, t_index,
              t_one_line, condition, pc, arg, tmp, term, hist>>

-----------------------------------------------------------------------------
(* Bounds of the model *)

MaxWidth == 26          \* terminal widths 1..MaxWidth
MaxMsgLen == 10         \* message lengths 0..MaxMsgLen
MaxPrefixLen == 2       \* prefix lengths 0..MaxPrefixLen
MaxSepLen == 2          \* separator lengths 1..MaxSepLen
MaxAbsProgress == 1000  \* the progress range of the percent check
MaxIndex == 2           \* iterations of the background loop
MaxUpdates == 2         \* update() calls of the caller
MaxStops == 2           \* stop() calls of the caller
MaxLevel == 2           \* verbosity levels -1..MaxLevel
MaxTime == 6            \* animate_message_blocking: time 0..MaxTime
MaxInterval == 3        \* animate_message_blocking: interval 1..MaxInterval
MaxOver == 2            \* the fill check: progress -MaxOver..100+MaxOver
WidthSpan == 6          \* the fill check: widths MaxWidth-WidthSpan..MaxWidth

(* Program constants *)

MIN_BAR_WIDTH == 8

-----------------------------------------------------------------------------
(* Python primitives *)

\* Optional values: None, or a value
None == [none |-> TRUE, val |-> <<>>]
Some(v) == [none |-> FALSE, val |-> v]

Max(a, b) == IF a >= b THEN a ELSE b
Min(a, b) == IF a <= b THEN a ELSE b

\* s[a:b] of Python for a sequence s
PySliceIndex(i, n) == IF i < 0 THEN Max(0, n + i) ELSE Min(i, n)
PySlice(s, a, b) ==
    SubSeq(s, PySliceIndex(a, Len(s)) + 1, PySliceIndex(b, Len(s)))

\* s[a:b] = r of Python (slice assignment on a list)
PySliceAssign(s, a, b, r) ==
    LET lo == PySliceIndex(a, Len(s))
        hi == Max(lo, PySliceIndex(b, Len(s)))
    IN  SubSeq(s, 1, lo) \o r \o SubSeq(s, hi + 1, Len(s))

\* [c] * n
Repeat(c, n) == [i \in 1..Max(0, n) |-> c]

DigitChar(d) == <<"0", "1", "2", "3", "4", "5", "6", "7", "8", "9">>[d + 1]

RECURSIVE NatStr(_)
NatStr(n) == IF n < 10 THEN <<DigitChar(n)>>
             ELSE NatStr(n \div 10) \o <<DigitChar(n % 10)>>

\* str(n) for an int n
IntStr(n) == IF n < 0 THEN <<"-">> \o NatStr(-n) ELSE NatStr(n)

\* round(num / den) of Python 3 for den > 0: to nearest, ties to even.
\* (The code rounds the float (p / 100.0) * inside_width; for inside_width
\* below 45 the float result equals this exact one for every p in 0..100.)
PyRound(num, den) ==
    LET q == num \div den
        r == num % den
    IN  IF 2 * r < den THEN q
        ELSE IF 2 * r > den THEN q + 1
        ELSE IF q % 2 = 0 THEN q ELSE q + 1

-----------------------------------------------------------------------------
(* constants.py: the colour codes *)

LOADING_SYMBOL == <<"/", "|", "\\", "-">>

FRAME_EVERY == 2

\* LOADING_ANIMATION["frames"]
LOADING_FRAMES ==
    << <<"|", "#", " ", " ", " ", "|">>, <<"|", " ", "#", " ", " ", "|">>,
       <<"|", " ", " ", "#", " ", "|">>, <<"|", " ", " ", " ", "#", "|">>,
       <<"|", " ", " ", " ", "#", "|">>, <<"|", " ", " ", "#", " ", "|">>,
       <<"|", " ", "#", " ", " ", "|">>, <<"|", "#", " ", " ", " ", "|">> >>

RESET == <<"ESC", "[", "0", "m">>
DIM == <<"ESC", "[", "2", "m">>
BLUE == <<"ESC", "[", "3", "4", "m">>
BRIGHT_MAGENTA == <<"ESC", "[", "9", "5", "m">>
WHITE == <<"ESC", "[", "3", "7", "m">>
BRIGHT_RED == <<"ESC", "[", "9", "1", "m">>
BRIGHT_GREEN == <<"ESC", "[", "9", "2", "m">>
BRIGHT_YELLOW == <<"ESC", "[", "9", "3", "m">>
BRIGHT_WHITE == <<"ESC", "[", "9", "7", "m">>

-----------------------------------------------------------------------------
(* Progress values: an int, a str that is no number, or None *)

IntProgress(n) == [kind |-> "int", val |-> n]
StrProgress == [kind |-> "str", val |-> 0]
NoneProgress == [kind |-> "None", val |-> 0]

\* int(progress): the value, or the exception it raises
PyInt(progress) ==
    CASE progress.kind = "int" -> [exc |-> "none", val |-> progress.val]
      [] progress.kind = "str" -> [exc |-> "ValueError", val |-> 0]
      [] OTHER -> [exc |-> "TypeError", val |-> 0]

\* f" {p}%"
PercentText(p) == <<" ">> \o IntStr(p) \o <<"%">>

-----------------------------------------------------------------------------
(* Cliasi.update_prefix and Cliasi.__print *)

\* self.__prefix after update_prefix(prefix)
UpdatePrefix(prefix) == DIM \o <<"[">> \o prefix \o <<"]">>

\* The text print() writes for __print(color, symbol, message, override, ...):
\* the five arguments separated by one space, then `end`.
PrintText(inst, color, symbol, message, override, color_message) ==
    LET oneline == IF override.none THEN inst.messages_stay_in_one_line
                   ELSE override.val
    IN  <<"CR", "ESC", "[", "2", "K", "CR">>
        \o <<" ">> \o (IF inst.enable_colors THEN color ELSE <<>>) \o symbol
        \o <<" ">> \o DIM \o inst.prefix \o RESET
        \o <<" ">> \o inst.prefix_seperator
                   \o (IF inst.enable_colors /\ color_message THEN color ELSE <<>>)
        \o <<" ">> \o message
        \o (IF oneline THEN <<>> ELSE <<"LF">>) \o RESET

-----------------------------------------------------------------------------
(* Cliasi.__format_progressbar_to_screen_width *)

\* line 297
DeadSpace(symbol, self_prefix, seperator, p, show_percent) ==
    Len(symbol) + 2 + Len(self_prefix) + Len(seperator)
        + (IF show_percent THEN Len(PercentText(p)) ELSE 0)

\* (mutant: the lower bound of the clamp is forgotten)
ClampProgress_NoLowerBound(progress) == Min(100, progress)

\* line 301, for an int
ClampProgress(progress) == Max(0, Min(100, progress))

\* (mutant: the floor of the inside width is forgotten)
InsideWidth_NoFloor(total_cols, dead_space) ==
    total_cols - Max(0, dead_space) - 2

\* line 306
InsideWidth(total_cols, dead_space) ==
    Max(MIN_BAR_WIDTH, total_cols - Max(0, dead_space) - 2)

\* (mutant: the cut keeps one character too many before the ellipsis)
TruncateMessage_OffByOne(message, max_message_width) ==
    LET msg == IF message.none THEN <<>> ELSE message.val
    IN  IF Len(msg) > max_message_width
        THEN PySlice(msg, 0, max_message_width) \o <<"ELLIPSIS">>
        ELSE msg

\* lines 311-317
TruncateMessage(message, max_message_width) ==
    LET msg == IF message.none THEN <<>> ELSE message.val
    IN  IF Len(msg) > max_message_width
        THEN IF max_message_width >= 3
             THEN PySlice(msg, 0, max_message_width - 1) \o <<"ELLIPSIS">>
             ELSE PySlice(msg, 0, max_message_width)
        ELSE msg

\* line 324
MsgStart(usable_width, M) == Max(0, (usable_width - M) \div 2)

\* lines 328-332
PlaceMessage(inside_width, msg, msg_start, msg_end) ==
    LET bar == Repeat(" ", inside_width)
    IN  IF Len(msg) > 0 THEN PySliceAssign(bar, msg_start, msg_end, msg)
        ELSE bar

\* (mutant: the target is rounded down)
TargetFill_Floor(p, inside_width) == (p * inside_width) \div 100

\* line 337
TargetFill(p, inside_width) == PyRound(p * inside_width, 100)

\* (mutant: the loop does not skip the cells of the message)
RECURSIVE FillLoop_Overwrites(_, _, _, _, _, _, _)
FillLoop_Overwrites(bar, filled, i, target_fill, inside_width, msg_start, msg_end) ==
    IF filled < target_fill /\ i < inside_width
    THEN FillLoop_Overwrites([bar EXCEPT ![i + 1] = "="], filled + 1, i + 1,
                             target_fill, inside_width, msg_start, msg_end)
    ELSE [bar |-> bar, filled |-> filled]

\* lines 340-349: the loop, from the state (bar, filled, i)
RECURSIVE FillLoop(_, _, _, _, _, _, _)
FillLoop(bar, filled, i, target_fill, inside_width, msg_start, msg_end) ==
    IF filled < target_fill /\ i < inside_width
    THEN IF msg_start <= i /\ i < msg_end
         THEN FillLoop(bar, filled, i + 1, target_fill, inside_width,
                       msg_start, msg_end)
         ELSE FillLoop([bar EXCEPT ![i + 1] = "="], filled + 1, i + 1,
                       target_fill, inside_width, msg_start, msg_end)
    ELSE [bar |-> bar, filled |-> filled]

Raised(exc) ==
    [exc |-> exc, text |-> <<>>, p |-> 0, dead_space |-> 0, inside_width |-> 0,
     msg |-> <<>>, msg_start |-> 0, msg_end |-> 0, target_fill |-> 0,
     filled |-> 0, bar |-> <<>>]

\* lines 290-352: the returned text, with the locals it was computed from
FormatProgressbar(inst, total_cols, message, symbol, progress, show_percent) ==
    LET conv == PyInt(progress)
    IN  IF conv.exc = "TypeError" THEN Raised("TypeError")
        ELSE IF progress.kind # "int" THEN Raised("TypeError")
        ELSE
        LET p0 == IF conv.exc = "ValueError" THEN 0 ELSE conv.val
            dead_space == DeadSpace(symbol, inst.prefix, inst.prefix_seperator,
                                    p0, show_percent)
            p == ClampProgress(progress.val)
            inside_width == InsideWidth(total_cols, dead_space)
            max_message_width == Max(0, inside_width)
            msg == TruncateMessage(message, max_message_width)
            M == Len(msg)
            msg_start == MsgStart(inside_width, M)
            msg_end == msg_start + M
            bar0 == PlaceMessage(inside_width, msg, msg_start, msg_end)
            target_fill == TargetFill(p, inside_width)
            loop == FillLoop(bar0, 0, 0, target_fill, inside_width,
                             msg_start, msg_end)
        IN  [exc |-> "none",
             text |-> <<"[">> \o loop.bar \o <<"]">>
                      \o (IF show_percent THEN PercentText(p) ELSE <<>>),
             p |-> p, dead_space |-> dead_space, inside_width |-> inside_width,
             msg |-> msg, msg_start |-> msg_start, msg_end |-> msg_end,
             target_fill |-> target_fill, filled |-> loop.filled,
             bar |-> loop.bar]

\* Cliasi.progressbar (lines 354-370): format, then print; an exception of
\* the format leaves the terminal untouched.
Progressbar(inst, total_cols, message, progress, override, show_percent) ==
    LET f == FormatProgressbar(inst, total_cols, message, <<"#">>, progress,
                               show_percent)
    IN  [fmt |-> f,
         printed |-> IF f.exc = "none"
                     THEN PrintText(inst, BLUE, <<"#">>, f.text, override, TRUE)
                     ELSE <<>>]

-----------------------------------------------------------------------------
(* The columns a written text takes on the terminal: an escape sequence     *)
(* (ESC [ ... up to its final letter), CR and LF take none.                 *)

RECURSIVE VisibleFrom(_, _, _)
VisibleFrom(s, i, in_escape) ==
    IF i > Len(s) THEN <<>>
    ELSE IF in_escape
         THEN VisibleFrom(s, i + 1, s[i] \notin {"m", "K"})
         ELSE IF s[i] = "ESC" THEN VisibleFrom(s, i + 1, TRUE)
         ELSE IF s[i] \in {"CR", "LF"} THEN VisibleFrom(s, i + 1, FALSE)
         ELSE <<s[i]>> \o VisibleFrom(s, i + 1, FALSE)

Visible(s) == VisibleFrom(s, 1, FALSE)

-----------------------------------------------------------------------------
(* Inputs of the layout specifications *)

Letters == <<"a", "b", "c", "d", "e", "f", "g", "h", "i", "j", "k", "l", "m", "n",
             "o", "p", "q", "r", "s", "t", "u", "v", "w", "x", "y", "z">>

\* a text of n cells, each cell different from its neighbours
Text(n) == [i \in 1..n |-> Letters[((i - 1) % Len(Letters)) + 1]]

Messages == {None} \cup {Some(Text(n)) : n \in 0..MaxMsgLen}
Prefixes == {Text(n) : n \in 0..MaxPrefixLen}
Seperators == {Repeat(":", n) : n \in 1..MaxSepLen}
Overrides == {None, Some(TRUE), Some(FALSE)}

SampleProgress ==
    {IntProgress(n) : n \in {-1000, -10, -1, 0, 1, 9, 10, 50, 99, 100, 101, 1000}}
        \cup {StrProgress, NoneProgress}

\* Cliasi(prefix, messages_stay_in_one_line, colors, min_verbose_level, seperator)
Cliasi(prefix, one_line, colors, level, seperator) ==
    [prefix |-> UpdatePrefix(prefix), messages_stay_in_one_line |-> one_line,
     enable_colors |-> colors, min_verbose_level |-> level,
     prefix_seperator |-> seperator]

NotCalled == [fmt |-> Raised("not called"), printed |-> <<>>]

Actors == {"caller", "thread"}

NoArgs == [message |-> None, progress |-> NoneProgress]

NoFrame == [by |-> "none", index |-> 0, message |-> None,
            progress |-> NoneProgress, text |-> <<>>, after |-> 0]

\* nothing written yet
Term0 == [frames |-> [a \in Actors |-> 0], newlines |-> 0, last |-> NoFrame]

NoStart == [verbosity |-> None, override |-> None]

Hist0 == [start |-> NoStart, updates |-> 0, stops |-> 0,
          committed_message |-> None, committed_progress |-> NoneProgress,
          update_arg |-> NoArgs, update_frame |-> NoFrame,
          term_at_stop |-> Term0, updates_at_stop |-> 0,
          entry |-> [message |-> None, progress |-> NoneProgress],
          frames_at_set |-> 0]

\* The state of the task before an animate_* or progressbar_animated_* call
NoTask ==
    /\ handle = "none" /\ kind = "none" /\ closure_message = None
    /\ t_message = None /\ t_progress = NoneProgress /\ t_index = 0
    /\ t_one_line = FALSE /\ condition = FALSE
    /\ pc = [a \in Actors |-> "none"]
    /\ arg = [a \in Actors |-> NoArgs]
    /\ tmp = [a \in Actors |-> None]
    /\ term = Term0 /\ hist = Hist0

InitLayout ==
    /\ \E prefix \in Prefixes, seperator \in Seperators, one_line \in BOOLEAN :
          cli = Cliasi(prefix, one_line, FALSE, 0, seperator)
    /\ terminal_size \in 1..MaxWidth
    /\ \E message \in Messages, progress \in SampleProgress,
          show_percent \in BOOLEAN :
            call = [message |-> message, progress |-> progress,
                    override |-> Some(TRUE), show_percent |-> show_percent]
    /\ ret = NotCalled
    /\ NoTask

\* cli.progressbar(message, progress, override, show_percent)
CallProgressbar ==
    /\ ret = NotCalled
    /\ ret' = Progressbar(cli, terminal_size, call.message, call.progress,
                          call.override, call.show_percent)
    /\ UNCHANGED <<call, instVars, taskVars>>

NextLayout == CallProgressbar

SpecLayout == InitLayout /\ [][NextLayout]_vars



\* The percent check: every progress of the range, few other inputs
InitPercent ==
    /\ cli = Cliasi(Text(MaxPrefixLen), FALSE, FALSE, 0, Repeat(":", 1))
    /\ terminal_size \in {1, MaxWidth}
    /\ \E message \in {None, Some(Text(MaxMsgLen))},
          progress \in -MaxAbsProgress..MaxAbsProgress, show_percent \in BOOLEAN :
            call = [message |-> message, progress |-> IntProgress(progress),
                    override |-> Some(TRUE), show_percent |-> show_percent]
    /\ ret = NotCalled
    /\ NoTask

SpecPercent == InitPercent /\ [][NextLayout]_vars

\* The fill check: every progress of [0, 100] and a little beyond, the
\* terminal widths that give different inside widths (and width 1, which
\* gives the minimum), every message length, a message made of the bar's
\* own glyphs, with and without the percent text, two prefix lengths
InitFill ==
    /\ \E prefix \in {Text(0), Text(MaxPrefixLen)} :
          cli = Cliasi(prefix, FALSE, FALSE, 0, Repeat(":", 1))
    /\ terminal_size \in {1} \cup ((MaxWidth - WidthSpan)..MaxWidth)
    /\ \E message \in Messages \cup {Some(<<"=", " ", "=">>)},
          progress \in (0 - MaxOver)..(100 + MaxOver), show_percent \in BOOLEAN :
            call = [message |-> message, progress |-> IntProgress(progress),
                    override |-> Some(TRUE), show_percent |-> show_percent]
    /\ ret = NotCalled
    /\ NoTask

SpecFill == InitFill /\ [][NextLayout]_vars

-----------------------------------------------------------------------------
(* The leveled static messages: message, info, log, log_small, list, warn,   *)
(* fail, success.  `call` holds the call, `ret.printed` what it wrote.        *)

\* (mutant: a message at the instance's own level is held back)
VerboseCheck_AtLeast(level) == level >= cli.min_verbose_level

\* line 70: True when the message is not to be sent
VerboseCheck(level) == level > cli.min_verbose_level

StaticFunctions ==
    {"message", "info", "log", "log_small", "list", "warn", "fail", "success"}

\* the color, symbol and color_message each function hands to __print
\* (lines 103, 116, 129, 142, 155, 168, 181, 194); the check mark is one cell
StaticStyle(fn) ==
    CASE fn = "message"   -> [color |-> WHITE \o DIM, symbol |-> <<"#">>,
                              color_message |-> FALSE]
      [] fn = "info"      -> [color |-> BRIGHT_WHITE, symbol |-> <<"i">>,
                              color_message |-> FALSE]
      [] fn = "log"       -> [color |-> WHITE \o DIM, symbol |-> <<"L", "O", "G">>,
                              color_message |-> FALSE]
      [] fn = "log_small" -> [color |-> WHITE \o DIM, symbol |-> <<"L">>,
                              color_message |-> FALSE]
      [] fn = "list"      -> [color |-> BRIGHT_WHITE, symbol |-> <<"-">>,
                              color_message |-> FALSE]
      [] fn = "warn"      -> [color |-> BRIGHT_YELLOW, symbol |-> <<"!">>,
                              color_message |-> TRUE]
      [] fn = "fail"      -> [color |-> BRIGHT_RED, symbol |-> <<"X">>,
                              color_message |-> TRUE]
      [] fn = "success"   -> [color |-> BRIGHT_GREEN, symbol |-> <<"CHECK">>,
                              color_message |-> TRUE]

\* what cli.<fn>(message, verbosity, override) writes: nothing after the
\* early return, the __print line otherwise
StaticMessage(fn, message, verbosity, override) ==
    IF VerboseCheck(verbosity) THEN <<>>
    ELSE PrintText(cli, StaticStyle(fn).color, StaticStyle(fn).symbol, message,
                   override, StaticStyle(fn).color_message)

NoStaticCall ==
    [fn |-> "none", message |-> <<>>, verbosity |-> 0, override |-> None]

InitMessages ==
    /\ \E one_line \in BOOLEAN, colors \in BOOLEAN, level \in -1..MaxLevel :
          cli = Cliasi(Text(MaxPrefixLen), one_line, colors, level, Repeat(":", 1))
    /\ terminal_size = MaxWidth
    /\ call = NoStaticCall
    /\ ret = NotCalled
    /\ NoTask

CallStatic(fn, message, verbosity, override) ==
    /\ call = NoStaticCall
    /\ call' = [fn |-> fn, message |-> message, verbosity |-> verbosity,
                override |-> override]
    /\ ret' = [fmt |-> NotCalled.fmt,
               printed |-> StaticMessage(fn, message, verbosity, override)]
    /\ UNCHANGED <<instVars, taskVars>>

NextMessages ==
    \E fn \in StaticFunctions, message \in {Text(0), Text(MaxMsgLen)},
       verbosity \in -2..(MaxLevel + 1), override \in Overrides :
         CallStatic(fn, message, verbosity, override)

SpecMessages == InitMessages /\ [][NextMessages]_vars

-----------------------------------------------------------------------------
(* animate_message_blocking.  time and interval are whole numbers of one     *)
(* time unit; the animation drawn by randint is the loading one; `ret` holds  *)
(* what the call printed, the sleep() calls it made and how it ended.         *)

\* lines 222-236
ShowAnimationFrame(message, color, current_symbol_frame, current_animation_frame) ==
    PrintText(cli, color, current_symbol_frame,
              current_animation_frame
                 \o (IF current_animation_frame = <<>> THEN <<>> ELSE <<" ">>)
                 \o message,
              Some(TRUE), TRUE)

\* lines 264-275: the while loop, from its test; sleeps is the sequence of
\* the sleep() arguments so far
RECURSIVE BlockingLoop(_, _, _, _, _, _)
BlockingLoop(remaining, index_total, sleeps, printed, interval, message) ==
    IF remaining > 0
    THEN LET frame ==
                 ShowAnimationFrame(
                     message, BRIGHT_MAGENTA,
                     <<LOADING_SYMBOL[(index_total % Len(LOADING_SYMBOL)) + 1]>>,
                     LOADING_FRAMES[((index_total \div FRAME_EVERY)
                                        % Len(LOADING_FRAMES)) + 1])
             left == remaining - interval
         IN  IF left < interval
             THEN [remaining |-> left, index_total |-> index_total + 1,
                   sleeps |-> sleeps, printed |-> printed \o frame]
             ELSE BlockingLoop(left, index_total + 1, Append(sleeps, interval),
                               printed \o frame, interval, message)
    ELSE [remaining |-> remaining, index_total |-> index_total,
          sleeps |-> sleeps, printed |-> printed]

\* Python's truth value of an Optional[bool]
Truthy(x) == ~x.none /\ x.val

\* lines 259-278.  sleep() of a negative number raises ValueError.
AnimateMessageBlocking(message, time, interval, override) ==
    LET loop == BlockingLoop(time, 0, <<>>, <<>>, interval, message)
        chosen == IF ~override.none THEN Some(cli.messages_stay_in_one_line)
                  ELSE override
        newline == ~Truthy(chosen)
    IN  IF loop.remaining < 0
        THEN [exc |-> "ValueError", frames |-> loop.index_total,
              remaining |-> loop.remaining,
              sleeps |-> loop.sleeps, newline |-> FALSE,
              printed |-> loop.printed]
        ELSE [exc |-> "none", frames |-> loop.index_total,
              remaining |-> loop.remaining,
              sleeps |-> Append(loop.sleeps, loop.remaining), newline |-> newline,
              printed |-> loop.printed \o (IF newline THEN <<"LF">> ELSE <<>>)]

NoBlockingCall ==
    [fn |-> "none", message |-> <<>>, time |-> 0, interval |-> 1,
     override |-> None]

InitBlocking ==
    /\ \E one_line \in BOOLEAN :
          cli = Cliasi(Text(MaxPrefixLen), one_line, FALSE, 0, Repeat(":", 1))
    /\ terminal_size = MaxWidth
    /\ call = NoBlockingCall
    /\ ret = NotCalled
    /\ NoTask

CallBlocking(message, time, interval, override) ==
    /\ call = NoBlockingCall
    /\ call' = [fn |-> "animate_message_blocking", message |-> message,
                time |-> time, interval |-> interval, override |-> override]
    /\ LET r == AnimateMessageBlocking(message, time, interval, override)
       IN  ret' = [fmt |-> NotCalled.fmt, printed |-> r.printed, exc |-> r.exc,
                   frames |-> r.frames, sleeps |-> r.sleeps,
                   remaining |-> r.remaining,
                   newline |-> r.newline]
    /\ UNCHANGED <<instVars, taskVars>>

NextBlocking ==
    \E message \in {Text(0), Text(MaxMsgLen)}, time \in 0..MaxTime,
       interval \in 1..MaxInterval, override \in Overrides :
         CallBlocking(message, time, interval, override)

SpecBlocking == InitBlocking /\ [][NextBlocking]_vars

-----------------------------------------------------------------------------
(* The non-blocking tasks: NonBlockingAnimationTask, NonBlockingProgressTask, *)
(* __get_animation_task, __get_progressbar_task and the four functions that   *)
(* start them.  The caller and the background thread are the two actors; an   *)
(* attribute read and an attribute write are separate steps of an actor.      *)

TaskFunctions == {"animate_message_non_blocking",
                  "animate_message_download_non_blocking",
                  "progressbar_animated_normal",
                  "progressbar_animated_download"}

\* the default of override_messages_stay_in_one_line (lines 464, 482, 577, 603)
DefaultOverride(fn) ==
    IF fn = "animate_message_non_blocking" THEN None ELSE Some(FALSE)

\* (mutant: the override given at task start is ignored)
TaskOneLine_InstanceOnly(override) == cli.messages_stay_in_one_line

\* lines 435 and 544: the one-line mode the task is constructed with
TaskOneLine(override) ==
    IF ~override.none THEN override.val ELSE cli.messages_stay_in_one_line

OldMessage == <<"o", "l", "d">>
NewMessages == {<<"n", "e", "w">>}
StartProgress == IntProgress(10)
NewProgress == {IntProgress(25)}

\* The frame update() (437-445) or update_bar() (547-556) prints from the
\* task's fields as they are now.
Frame(a) ==
    LET symbol == <<LOADING_SYMBOL[(t_index % Len(LOADING_SYMBOL)) + 1]>>
        anim == LOADING_FRAMES[((t_index \div FRAME_EVERY) % Len(LOADING_FRAMES)) + 1]
    IN  IF kind = "animation"
        THEN [by |-> a, index |-> t_index, message |-> t_message,
              progress |-> NoneProgress,
              text |-> anim \o <<" ">> \o t_message.val,
              after |-> hist.updates]
        ELSE [by |-> a, index |-> t_index, message |-> closure_message,
              progress |-> t_progress,
              text |-> FormatProgressbar(cli, terminal_size, closure_message,
                                         symbol, t_progress, TRUE).text,
              after |-> hist.updates]

\* The animate_* / progressbar_animated_* call.  None of the four functions
\* has a `verbosity` parameter: passing one raises TypeError before any task
\* exists.  Otherwise the task is built and its thread started.
Start(fn, verbosity, override_arg) ==
    /\ handle = "none"
    /\ LET override == IF override_arg.none THEN DefaultOverride(fn)
                       ELSE override_arg.val
           started == [verbosity |-> verbosity, override |-> override]
       IN  IF ~verbosity.none
           THEN /\ handle' = "TypeError"
                /\ hist' = [hist EXCEPT !.start = started]
                /\ UNCHANGED <<kind, closure_message, t_message, t_progress,
                               t_index, t_one_line, condition, pc, arg, tmp, term>>
           ELSE /\ handle' = "task"
                /\ kind' = IF fn \in {"progressbar_animated_normal",
                                      "progressbar_animated_download"}
                           THEN "progress" ELSE "animation"
                /\ closure_message' = Some(OldMessage)
                /\ t_message' = Some(OldMessage)
                /\ t_progress' = IF kind' = "progress" THEN StartProgress
                                 ELSE NoneProgress
                /\ t_index' = 0
                /\ t_one_line' = TaskOneLine(override)
                /\ condition' = FALSE
                /\ pc' = [caller |-> "idle", thread |-> "loop"]
                /\ hist' = [hist EXCEPT !.start = started]
                /\ UNCHANGED <<arg, tmp, term>>
    /\ UNCHANGED <<instVars, layoutVars>>

\* entering task.update(message, progress)
EnterUpdate(a, message, progress) ==
    /\ arg' = [arg EXCEPT ![a] = [message |-> message, progress |-> progress]]
    /\ pc' = [pc EXCEPT ![a] = IF kind = "progress" THEN "u_prog" ELSE "u_msg"]

\* line 519, right-hand side: progress if progress is not None else self._progress
EvalProgress(a) ==
    /\ pc[a] = "u_prog"
    /\ tmp' = [tmp EXCEPT ![a] = IF arg[a].progress # NoneProgress
                                 THEN arg[a].progress ELSE t_progress]
    /\ pc' = [pc EXCEPT ![a] = "u_prog_store"]
    /\ UNCHANGED <<instVars, layoutVars, handle, kind, closure_message, t_message,
                   t_progress, t_index, t_one_line, condition, arg, term, hist>>

\* line 519, the store into self._progress
StoreProgress(a) ==
    /\ pc[a] = "u_prog_store"
    /\ t_progress' = tmp[a]
    /\ tmp' = [tmp EXCEPT ![a] = None]
    /\ pc' = [pc EXCEPT ![a] = "u_msg"]
    /\ UNCHANGED <<instVars, layoutVars, handle, kind, closure_message, t_message,
                   t_index, t_one_line, condition, arg, term, hist>>

\* line 414, right-hand side: message if message is not None else self._message
EvalMessage(a) ==
    /\ pc[a] = "u_msg"
    /\ tmp' = [tmp EXCEPT ![a] = IF ~arg[a].message.none
                                 THEN arg[a].message ELSE t_message]
    /\ pc' = [pc EXCEPT ![a] = "u_msg_store"]
    /\ UNCHANGED <<instVars, layoutVars, handle, kind, closure_message, t_message,
                   t_progress, t_index, t_one_line, condition, arg, term, hist>>

\* line 414, the store into self._message
StoreMessage(a) ==
    /\ pc[a] = "u_msg_store"
    /\ t_message' = tmp[a]
    /\ tmp' = [tmp EXCEPT ![a] = None]
    /\ pc' = [pc EXCEPT ![a] = "u_render"]
    /\ UNCHANGED <<instVars, layoutVars, handle, kind, closure_message,
                   t_progress, t_index, t_one_line, condition, arg, term, hist>>

\* line 415: self._update() prints one frame; update() then returns, to the
\* caller or into the loop of the thread
Render(a) ==
    /\ pc[a] = "u_render"
    /\ term' = [term EXCEPT !.frames[a] = @ + 1, !.last = Frame(a)]
    /\ pc' = [pc EXCEPT ![a] = IF a = "thread" THEN "inc" ELSE "idle"]
    /\ arg' = [arg EXCEPT ![a] = NoArgs]
    /\ hist' = IF a = "thread" THEN hist
               ELSE [hist EXCEPT
                       !.updates = @ + 1,
                       !.committed_message =
                           IF ~arg[a].message.none THEN arg[a].message ELSE @,
                       !.committed_progress =
                           IF arg[a].progress # NoneProgress /\ kind = "progress"
                           THEN arg[a].progress ELSE @,
                       !.update_arg = arg[a],
                       !.update_frame = Frame(a)]
    /\ UNCHANGED <<instVars, layoutVars, handle, kind, closure_message, t_message,
                   t_progress, t_index, t_one_line, condition, tmp>>

\* (mutant: the first frame is begun whether or not the event is set)
ThreadLoop_FirstFrameAnyway ==
    /\ pc["thread"] = "loop"
    /\ IF condition /\ t_index >= 1
       THEN /\ pc' = [pc EXCEPT !["thread"] = "done"]
            /\ UNCHANGED arg
       ELSE /\ t_index < MaxIndex
            /\ EnterUpdate("thread", None, NoneProgress)
    /\ UNCHANGED <<instVars, layoutVars, handle, kind, closure_message, t_message,
                   t_progress, t_index, t_one_line, condition, tmp, term, hist>>

\* (mutant: the loop does not test the event)
ThreadLoop_IgnoresSignal ==
    /\ pc["thread"] = "loop"
    /\ t_index < MaxIndex
    /\ EnterUpdate("thread", None, NoneProgress)
    /\ UNCHANGED <<instVars, layoutVars, handle, kind, closure_message, t_message,
                   t_progress, t_index, t_one_line, condition, tmp, term, hist>>

\* animate(), line 452 / 563: the loop test; line 453 / 564 enters
\* task.update() with no argument
ThreadLoop ==
    /\ pc["thread"] = "loop"
    /\ IF condition
       THEN /\ pc' = [pc EXCEPT !["thread"] = "done"]
            /\ UNCHANGED arg
       ELSE /\ t_index < MaxIndex
            /\ EnterUpdate("thread", None, NoneProgress)
    /\ UNCHANGED <<instVars, layoutVars, handle, kind, closure_message, t_message,
                   t_progress, t_index, t_one_line, condition, tmp, term, hist>>

\* (mutant: the index advances by two)
ThreadInc_ByTwo ==
    /\ pc["thread"] = "inc"
    /\ t_index' = t_index + 2
    /\ pc' = [pc EXCEPT !["thread"] = "wait"]
    /\ UNCHANGED <<instVars, layoutVars, handle, kind, closure_message, t_message,
                   t_progress, t_one_line, condition, arg, tmp, term, hist>>

\* line 454 / 565: task._index += 1
ThreadInc ==
    /\ pc["thread"] = "inc"
    /\ t_index' = t_index + 1
    /\ pc' = [pc EXCEPT !["thread"] = "wait"]
    /\ UNCHANGED <<instVars, layoutVars, handle, kind, closure_message, t_message,
                   t_progress, t_one_line, condition, arg, tmp, term, hist>>

\* line 455 / 566: condition.wait(timeout=interval) returns when the event is
\* set or the interval has passed
ThreadWait ==
    /\ pc["thread"] = "wait"
    /\ pc' = [pc EXCEPT !["thread"] = "loop"]
    /\ UNCHANGED <<instVars, layoutVars, handle, kind, closure_message, t_message,
                   t_progress, t_index, t_one_line, condition, arg, tmp, term, hist>>

\* the caller calls task.update(message, progress)
CallUpdate(message, progress) ==
    /\ handle = "task" /\ pc["caller"] = "idle"
    /\ hist.updates < MaxUpdates
    /\ EnterUpdate("caller", message, progress)
    /\ hist' = [hist EXCEPT !.entry = [message |-> t_message,
                                       progress |-> t_progress]]
    /\ UNCHANGED <<instVars, layoutVars, handle, kind, closure_message, t_message,
                   t_progress, t_index, t_one_line, condition, tmp, term>>

\* the caller calls task.stop(); line 403: self._condition.set()
CallStop ==
    /\ handle = "task" /\ pc["caller"] = "idle"
    /\ hist.stops < MaxStops
    /\ condition' = TRUE
    /\ pc' = [pc EXCEPT !["caller"] = "s_join"]
    /\ hist' = IF condition THEN hist
               ELSE [hist EXCEPT !.frames_at_set = term.frames["thread"]]
    /\ UNCHANGED <<instVars, layoutVars, handle, kind, closure_message, t_message,
                   t_progress, t_index, t_one_line, arg, tmp, term>>

\* (mutant: stop() does not wait for the thread)
ThreadJoined_NoWait == TRUE

\* line 404: self._thread.join() returns once the thread has ended
ThreadJoined == pc["thread"] = "done"

StopJoin ==
    /\ pc["caller"] = "s_join"
    /\ ThreadJoined
    /\ pc' = [pc EXCEPT !["caller"] = "s_print"]
    /\ UNCHANGED <<instVars, layoutVars, handle, kind, closure_message, t_message,
                   t_progress, t_index, t_one_line, condition, arg, tmp, term, hist>>

\* lines 405-406: the trailing newline; stop() returns
StopPrint ==
    /\ pc["caller"] = "s_print"
    /\ term' = IF ~t_one_line THEN [term EXCEPT !.newlines = @ + 1] ELSE term
    /\ pc' = [pc EXCEPT !["caller"] = "idle"]
    /\ hist' = [hist EXCEPT
                  !.stops = @ + 1,
                  !.term_at_stop = IF hist.stops = 0 THEN term' ELSE @,
                  !.updates_at_stop = IF hist.stops = 0 THEN hist.updates ELSE @]
    /\ UNCHANGED <<instVars, layoutVars, handle, kind, closure_message, t_message,
                   t_progress, t_index, t_one_line, condition, arg, tmp>>

Init ==
    /\ \E one_line \in BOOLEAN :
          cli = Cliasi(Text(MaxPrefixLen), one_line, FALSE, 1, Repeat(":", 1))
    /\ terminal_size = MaxWidth
    /\ call = [message |-> None, progress |-> IntProgress(0),
               override |-> Some(TRUE), show_percent |-> FALSE]
    /\ ret = NotCalled
    /\ NoTask

Next ==
    \/ \E fn \in TaskFunctions, verbosity \in {None, Some(0), Some(2)},
          override_arg \in {None} \cup {Some(o) : o \in Overrides} :
            Start(fn, verbosity, override_arg)
    \/ \E message \in {None} \cup {Some(m) : m \in NewMessages},
          progress \in {NoneProgress} \cup NewProgress :
            CallUpdate(message, progress)
    \/ CallStop
    \/ StopJoin
    \/ StopPrint
    \/ ThreadLoop
    \/ ThreadInc
    \/ ThreadWait
    \/ \E a \in Actors : EvalProgress(a)
    \/ \E a \in Actors : StoreProgress(a)
    \/ \E a \in Actors : EvalMessage(a)
    \/ \E a \in Actors : StoreMessage(a)
    \/ \E a \in Actors : Render(a)

Spec == Init /\ [][Next]_vars

\* Scheduling: a thread that can run does run (the interpreter switches
\* threads, and the caller blocked in join() releases the lock); wait()
\* returns as soon as the event is set; join() returns once the thread has
\* ended.  Nothing is assumed about the timeout of wait() or about the
\* caller making further calls.
Fairness ==
    /\ WF_vars(ThreadLoop)
    /\ WF_vars(ThreadInc)
    /\ WF_vars(condition /\ ThreadWait)
    /\ WF_vars(EvalProgress("thread"))
    /\ WF_vars(StoreProgress("thread"))
    /\ WF_vars(EvalMessage("thread"))
    /\ WF_vars(StoreMessage("thread"))
    /\ WF_vars(Render("thread"))
    /\ WF_vars(StopJoin)
    /\ WF_vars(StopPrint)

\* The same program driven by a caller that calls update() at most once
\* before, between or after its stop() calls; the background thread is
\* unrestricted.
NextFair ==
    \/ \E fn \in TaskFunctions, verbosity \in {None, Some(0), Some(2)},
          override_arg \in {None} \cup {Some(o) : o \in Overrides} :
            Start(fn, verbosity, override_arg)
    \/ \E message \in {None} \cup {Some(m) : m \in NewMessages},
          progress \in {NoneProgress} \cup NewProgress :
            hist.updates = 0 /\ CallUpdate(message, progress)
    \/ CallStop
    \/ StopJoin
    \/ StopPrint
    \/ ThreadLoop
    \/ ThreadInc
    \/ ThreadWait
    \/ \E a \in Actors : EvalProgress(a)
    \/ \E a \in Actors : StoreProgress(a)
    \/ \E a \in Actors : EvalMessage(a)
    \/ \E a \in Actors : StoreMessage(a)
    \/ \E a \in Actors : Render(a)

SpecFair == Init /\ [][NextFair]_vars /\ Fairness

-----------------------------------------------------------------------------
(* Reading a rendered bar back *)

LastIndexOf(s, c) ==
    LET I == {i \in 1..Len(s) : s[i] = c}
    IN  IF I = {} THEN 0 ELSE CHOOSE i \in I : \A j \in I : j <= i

IsDigit(c) == \E d \in 0..9 : DigitChar(d) = c
DigitVal(c) == CHOOSE d \in 0..9 : DigitChar(d) = c

RECURSIVE ParseNat(_)
ParseNat(s) == IF s = <<>> THEN 0
               ELSE 10 * ParseNat(SubSeq(s, 1, Len(s) - 1)) + DigitVal(s[Len(s)])

\* the suffix " N%" of a text: is there one after the closing bracket, and N
PercentSuffix(text) ==
    LET sp == LastIndexOf(text, " ")
        digits == SubSeq(text, sp + 1, Len(text) - 1)
        ok == /\ sp > 1 /\ text[sp - 1] = "]" /\ text[Len(text)] = "%"
              /\ digits # <<>> /\ \A i \in 1..Len(digits) : IsDigit(digits[i])
    IN  [ok |-> ok, N |-> IF ok THEN ParseNat(digits) ELSE -1]

\* the cells between "[" and the last "]" of a bar
InsideCells(text) == SubSeq(text, 2, LastIndexOf(text, "]") - 1)

Called == ret # NotCalled
Returned == Called /\ ret.fmt.exc = "none"
InputMessage == IF call.message.none THEN <<>> ELSE call.message.val

-----------------------------------------------------------------------------
(* Claims about the layout *)

\* C6: for every integer progress in [-1000, 1000] the bar rendered with
\* show_percent ends with " N%" where N = min(100, max(0, progress)), so the
\* value shown is within [0, 100].
C6_PercentSuffixClamped ==
    (Returned /\ call.show_percent) =>
        LET shown == PercentSuffix(ret.fmt.text)
            v == call.progress.val
        IN  /\ shown.ok
            /\ shown.N = (IF v < 0 THEN 0 ELSE IF v > 100 THEN 100 ELSE v)
            /\ shown.N \in 0..100

C6_Witness ==
    /\ Returned /\ call.show_percent
    /\ call.progress.val = -MaxAbsProgress
    /\ PercentSuffix(ret.fmt.text).N = 0

\* C7: the layout function never raises on a non-numeric progress value: the
\* value is treated as progress 0 and a bar is returned.
C7_NonNumericIsZero ==
    (Called /\ call.progress.kind # "int") =>
        /\ ret.fmt.exc = "none"
        /\ ret.fmt.p = 0
        /\ Len(ret.fmt.text) >= 2

\* The line written by __print, split as the claim C8 splits it: what is
\* printed before the bracket, and the inside width that would make the line
\* terminal_width columns wide.
VisibleLine == Visible(ret.printed)
VisibleOverhead == LastIndexOf(VisibleLine, "[") - 1
RoomInside ==
    terminal_size - VisibleOverhead - 2
        - (IF call.show_percent THEN Len(PercentText(ret.fmt.p)) ELSE 0)

\* C8: the full rendered line (overhead outside the bracket, bracketed bar,
\* percent suffix when shown) is exactly terminal_width columns wide whenever
\* terminal_width minus the overhead leaves at least MIN_BAR_WIDTH inside the
\* brackets; otherwise the bar has the minimum inside width.
C8_LineIsTerminalWidth ==
    Returned =>
        IF RoomInside >= MIN_BAR_WIDTH
        THEN Len(VisibleLine) = terminal_size
        ELSE Len(InsideCells(ret.fmt.text)) = MIN_BAR_WIDTH

\* C9: for every terminal width w >= 1, also below the fixed overhead, and
\* every message and progress, at least MIN_BAR_WIDTH cells lie between the
\* brackets, so the bracketed bar is at least MIN_BAR_WIDTH + 2 columns long.
C9_BarNeverCollapses ==
    Returned =>
        LET text == ret.fmt.text
            close == LastIndexOf(text, "]")
        IN  /\ text[1] = "["
            /\ close >= MIN_BAR_WIDTH + 2
            /\ Len(InsideCells(text)) >= MIN_BAR_WIDTH
            /\ Len(text) >= MIN_BAR_WIDTH + 2

C9_Witness ==
    /\ Returned
    /\ terminal_size < ret.fmt.dead_space
    /\ Len(InsideCells(ret.fmt.text)) = MIN_BAR_WIDTH

\* C10: a message longer than inside_width is replaced by its first
\* inside_width - 1 characters followed by one ellipsis, a message of length
\* <= inside_width is kept unchanged, and in both cases the text between the
\* brackets has exactly inside_width cells.
C10_TruncateKeepsWidth ==
    Returned =>
        LET iw == ret.fmt.inside_width
            m == InputMessage
            placed == SubSeq(InsideCells(ret.fmt.text), ret.fmt.msg_start + 1,
                             ret.fmt.msg_end)
        IN  /\ Len(m) > iw =>
                  /\ ret.fmt.msg = SubSeq(m, 1, iw - 1) \o <<"ELLIPSIS">>
                  /\ placed = ret.fmt.msg
            /\ Len(m) <= iw => (ret.fmt.msg = m /\ placed = m)
            /\ Len(InsideCells(ret.fmt.text)) = iw

C10_Witness ==
    /\ Returned
    /\ Len(InputMessage) > ret.fmt.inside_width
    /\ ret.fmt.msg[Len(ret.fmt.msg)] = "ELLIPSIS"
    /\ Len(InsideCells(ret.fmt.text)) = ret.fmt.inside_width

-----------------------------------------------------------------------------
(* Claims about the tasks *)

Contains(text, x) ==
    \E i \in 0..(Len(text) - Len(x)) : SubSeq(text, i + 1, i + Len(x)) = x

\* C1: after stop() has returned on a task, the background thread has
\* terminated and it writes no further frame to the terminal, for every
\* interleaving of ticks, update() calls and the stop() call.
C1_NoFrameAfterStop ==
    hist.stops >= 1 =>
        /\ pc["thread"] = "done"
        /\ term.frames["thread"] = hist.term_at_stop.frames["thread"]

C1_Witness ==
    /\ hist.stops >= 1
    /\ hist.updates_at_stop >= 1
    /\ term.frames["thread"] >= 1
    /\ hist.updates > hist.updates_at_stop

\* C2: stop() is idempotent: a second stop() on the same handle leaves the
\* terminal output as the first one left it (no second trailing newline),
\* also when one-line mode is not in effect.
C2_StopIdempotent ==
    (hist.stops >= 2 /\ hist.updates = hist.updates_at_stop) =>
        term = hist.term_at_stop

\* C3: once a caller's update(x) has returned, the stored message and
\* progress are not reverted to an older value by the background tick, and
\* every render that starts afterwards shows x.
C3_UpdateNotReverted ==
    (handle = "task" /\ pc["caller"] = "idle" /\ hist.updates > 0) =>
        /\ ~hist.committed_message.none => t_message = hist.committed_message
        /\ hist.committed_progress # NoneProgress =>
               t_progress = hist.committed_progress
        /\ (term.last.by # "none" /\ term.last.after = hist.updates) =>
               /\ (kind = "animation" /\ ~hist.committed_message.none) =>
                      term.last.message = hist.committed_message
               /\ (kind = "progress" /\ hist.committed_progress # NoneProgress) =>
                      term.last.progress = hist.committed_progress

\* C4: for every task kind, update(message="X") on a running task renders,
\* before it returns, one frame whose text displays X.
C4_UpdateMessageDisplayed ==
    (hist.updates > 0 /\ hist.stops = 0 /\ ~hist.update_arg.message.none) =>
        Contains(hist.update_frame.text, hist.update_arg.message.val)

\* C5: a task started with a verbosity that min_verbose_level excludes is
\* still given a usable handle (no exception), and nothing is written to the
\* output across any update() and stop() calls on it.
C5_SuppressedTaskSilent ==
    (handle # "none" /\ ~hist.start.verbosity.none
                     /\ VerboseCheck(hist.start.verbosity.val)) =>
        /\ handle = "task"
        /\ term = Term0

\* C11: update(message?, progress?) overwrites exactly the fields that were
\* supplied: when it returns, a supplied field holds the supplied value and
\* an absent field holds what it held when the call was entered; the forced
\* render uses the current frame index without advancing it and without
\* touching the cancellation signal.
C11_UpdateFrameEffect ==
    [][(pc["caller"] = "u_render" /\ pc'["caller"] = "idle") =>
          /\ t_message' = IF arg["caller"].message.none THEN hist.entry.message
                          ELSE arg["caller"].message
          /\ kind = "progress" =>
                 t_progress' = IF arg["caller"].progress = NoneProgress
                               THEN hist.entry.progress
                               ELSE arg["caller"].progress
          /\ term'.last.index = t_index
          /\ t_index' = t_index
          /\ condition' = condition]_vars

\* C12: once stop() has set the cancellation signal, the background loop
\* leaves its wait and exits, so stop() eventually returns under fair
\* scheduling, whatever state the loop was in when the signal was set, also
\* when stop() is issued before the first frame was rendered.
C12_StopReturns == (pc["caller"] = "s_join") ~> (pc["caller"] = "idle")

\* a stop() that returned on a task that never rendered a frame
C12_Witness ==
    /\ hist.stops >= 1
    /\ term.frames["thread"] = 0 /\ term.frames["caller"] = 0
    /\ pc["thread"] = "done"

\* C13: the first stop() on a running task writes exactly one trailing
\* newline when the task's effective one-line mode is off and none when it
\* is on; the effective mode is the override given at task start when there
\* is one and the instance's messages_stay_in_one_line otherwise; a newline
\* is on the terminal only once the background thread has ended.
C13_StopNewline ==
    /\ hist.stops >= 1 =>
          hist.term_at_stop.newlines =
             (IF hist.start.override = None
              THEN (IF cli.messages_stay_in_one_line THEN 0 ELSE 1)
              ELSE (IF hist.start.override.val THEN 0 ELSE 1))
    /\ term.newlines > 0 => (pc["thread"] = "done" /\ hist.stops >= 1)

\* a one-line instance whose task was started with the override off: the
\* stop() wrote the newline
C13_Witness ==
    /\ hist.stops >= 1
    /\ cli.messages_stay_in_one_line
    /\ hist.start.override = Some(FALSE)
    /\ hist.term_at_stop.newlines = 1

\* C14: once stop() has returned the handle is dead: no update() on it
\* writes a frame, so the frames on the terminal are those that were there
\* when stop() returned.
C14_StoppedIsTerminal ==
    hist.stops >= 1 => term.frames = hist.term_at_stop.frames

-----------------------------------------------------------------------------
(* Claims about the fill of the bar *)

\* the message as it is placed in a bar of iw cells (iw >= 3)
PlacedMessage(m, iw) ==
    IF Len(m) > iw THEN SubSeq(m, 1, iw - 1) \o <<"ELLIPSIS">> ELSE m

\* the first of the message's cells, counted from 0
CentredStart(iw, M) == IF iw - M < 0 THEN 0 ELSE (iw - M) \div 2

\* the number of "=" outside the message's cells in the bar `text` rendered
\* for message m
FillCount(text, m) ==
    LET cells == InsideCells(text)
        iw == Len(cells)
        M == Len(PlacedMessage(m, iw))
        start == CentredStart(iw, M)
    IN  Cardinality({i \in 1..iw :
                       (i <= start \/ i > start + M) /\ cells[i] = "="})

\* t is p / 100 * iw rounded to a nearest integer
NearestTo(t, p, iw) == 100 * t - p * iw <= 50 /\ p * iw - 100 * t <= 50

\* the bar rendered for the same call with progress one higher
NextBar ==
    FormatProgressbar(cli, terminal_size, call.message, <<"#">>,
                      IntProgress(call.progress.val + 1), call.show_percent)

\* C19: in the rendered bar the (possibly truncated) message of length M
\* occupies exactly the cells [start, start+M) with
\* start = max(0, (inside_width - M) // 2): those cells hold the message, no
\* fill glyph was written over them, and every other cell is a fill glyph or
\* a space; for every progress in [0, 100] and every message.
C19_MessageCellsKept ==
    (Returned /\ call.progress.val \in 0..100) =>
        LET cells == InsideCells(ret.fmt.text)
            iw == Len(cells)
            msg == PlacedMessage(InputMessage, iw)
            M == Len(msg)
            start == CentredStart(iw, M)
        IN  /\ iw = ret.fmt.inside_width
            /\ SubSeq(cells, start + 1, start + M) = msg
            /\ \A i \in 1..iw :
                  (i <= start \/ i > start + M) => cells[i] \in {"=", " "}

\* a full bar around a message: the fill passed over the message's cells
C19_Witness ==
    /\ Returned /\ call.progress.val = 100
    /\ Len(ret.fmt.msg) >= 3 /\ ret.fmt.msg_start >= 1
    /\ ret.fmt.filled > ret.fmt.msg_start

\* C20 as stated: the number of cells marked with the fill glyph is
\* min(target, inside_width - M), target being clamped progress / 100 *
\* inside_width rounded to the nearest integer; progress 0 marks no cell,
\* progress 100 marks every cell outside the message, and the count never
\* decreases when progress increases with the other inputs fixed.
C20_FillCountMonotone ==
    Returned =>
        LET iw == Len(InsideCells(ret.fmt.text))
            M == Len(PlacedMessage(InputMessage, iw))
            p == IF call.progress.val < 0 THEN 0
                 ELSE IF call.progress.val > 100 THEN 100 ELSE call.progress.val
            count == FillCount(ret.fmt.text, InputMessage)
        IN  /\ \E t \in 0..iw : NearestTo(t, p, iw) /\ count = Min(t, iw - M)
            /\ p = 0 => count = 0
            /\ p = 100 => count = iw - M
            /\ count <= FillCount(NextBar.text, InputMessage)

\* C20, amended: the same, the count never decreasing when progress
\* increases by one and the bar keeps its inside width (the percent text
\* " N%" takes its columns from the bar, so the bar is one cell shorter at
\* 10 and at 100 than at 9 and at 99 unless it is at its minimum width).
C20_FillCount ==
    Returned =>
        LET iw == Len(InsideCells(ret.fmt.text))
            M == Len(PlacedMessage(InputMessage, iw))
            p == IF call.progress.val < 0 THEN 0
                 ELSE IF call.progress.val > 100 THEN 100 ELSE call.progress.val
            count == FillCount(ret.fmt.text, InputMessage)
        IN  /\ \E t \in 0..iw : NearestTo(t, p, iw) /\ count = Min(t, iw - M)
            /\ p = 0 => count = 0
            /\ p = 100 => count = iw - M
            /\ Len(InsideCells(NextBar.text)) = iw =>
                   count <= FillCount(NextBar.text, InputMessage)

\* a bar short of 100 whose target exceeds the cells left beside the
\* message, so that the count is inside_width - M, and whose width is the
\* same at the next progress value
C20_Witness ==
    /\ Returned /\ call.progress.val \in 1..98
    /\ Len(ret.fmt.msg) >= 1
    /\ Len(InsideCells(NextBar.text)) = ret.fmt.inside_width
    /\ ret.fmt.target_fill > ret.fmt.inside_width - Len(ret.fmt.msg)
    /\ FillCount(ret.fmt.text, InputMessage)
          = ret.fmt.inside_width - Len(ret.fmt.msg)

\* C18: once stop() has set the cancellation signal the background loop
\* completes at most one more frame, a frame whose loop test came before
\* the signal; a loop that tests the signal while it is set begins no frame,
\* and a loop that has observed the signal never runs again.  Spinner tasks
\* and progress-bar tasks alike.
C18_AtMostOneMoreFrame ==
    /\ [](condition => term.frames["thread"] <= hist.frames_at_set + 1)
    /\ [][/\ (condition /\ pc["thread"] = "loop") =>
                 (pc'["thread"] \in {"loop", "done"}
                    /\ term'.frames["thread"] = term.frames["thread"])
          /\ pc["thread"] = "done" =>
                 (pc'["thread"] = "done"
                    /\ term'.frames["thread"] = term.frames["thread"])]_vars

\* a progress-bar task whose thread was inside a frame when the signal was
\* set: that frame completed, then the thread ended
C18_Witness ==
    /\ condition /\ kind = "progress"
    /\ pc["thread"] = "done"
    /\ term.frames["thread"] = hist.frames_at_set + 1

\* how the frame index moves: only the background loop's increment changes
\* it, by exactly one, and never once stop() has returned
IndexSteps ==
    /\ t_index' # t_index => (pc["thread"] = "inc" /\ t_index' = t_index + 1)
    /\ hist.stops >= 1 => t_index' = t_index

\* C21 as stated: the frame index starts at 0, is written only by the
\* background loop, by exactly 1 after each tick-rendered frame, never
\* decreases, no longer changes once stop() has returned, and in every
\* reachable state equals the number of frames the background loop has
\* completed.
C21_IndexEqualsFrames ==
    /\ [](handle = "task" => t_index = term.frames["thread"])
    /\ [][IndexSteps]_vars

\* C21, amended: the same, the index being equal to the number of frames the
\* background loop has written except between a frame's write and the
\* increment that follows it, where it is one less; it is equal again
\* whenever the loop is at its test, in its wait, or has ended.
C21_FrameIndex ==
    /\ [](handle = "task" =>
            t_index = term.frames["thread"]
                        - (IF pc["thread"] = "inc" THEN 1 ELSE 0))
    /\ [][IndexSteps]_vars

\* a stopped task whose loop wrote frames and whose caller wrote one too:
\* the index counts the loop's frames only
C21_Witness ==
    /\ hist.stops >= 1
    /\ t_index >= 1 /\ t_index = term.frames["thread"]
    /\ term.frames["caller"] >= 1

-----------------------------------------------------------------------------
(* Claims about animate_message_blocking *)

RECURSIVE SumSeq(_)
SumSeq(s) == IF s = <<>> THEN 0 ELSE Head(s) + SumSeq(Tail(s))

BlockingCalled == call.fn = "animate_message_blocking"

\* C16: animate_message_blocking(message, time, interval) blocks for the
\* duration `time`: for every time >= 0 and interval > 0 the call ends
\* normally and the durations of its sleep() calls sum to exactly time.
C16_SleepsSumToTime ==
    BlockingCalled => (ret.exc = "none" /\ SumSeq(ret.sleeps) = call.time)

\* C17: animate_message_blocking ends with a trailing newline exactly when
\* the effective one-line mode is off; the effective mode is the override
\* when it is not None and the instance's messages_stay_in_one_line
\* otherwise.
C17_BlockingNewline ==
    (BlockingCalled /\ ret.exc = "none") =>
        (ret.newline <=> ~(IF call.override = None
                           THEN cli.messages_stay_in_one_line
                           ELSE call.override.val))

\* C22: animate_message_blocking never calls sleep with a negative
\* duration: for every time >= 0 and interval > 0, also time < interval and
\* time no multiple of interval, the `remaining` handed to the final sleep
\* is >= 0 and the call returns without raising.
C22_FinalSleepNotNegative ==
    BlockingCalled => (ret.remaining >= 0 /\ ret.exc = "none")

=============================================================================
